---- MODULE Spec2Model ----
(***************************************************************************)
(* Med Genie: the conversation / follow-up orchestration of HomePage       *)
(* (src/src/lib/types.ts), the profile editor UserProfileModal             *)
(* (src/unnamed/part_002), the manual entry and the vital-sign classifier  *)
(* of VitalSignsTracker (src/unnamed/part_000), the emergency alert of     *)
(* SOSButton (src/src/components/sos-button.tsx) and the medication list   *)
(* of PrescriptionAnalyzer (src/unnamed/part_001).                         *)
(*                                                                         *)
(* React state is modelled as variables.  A handler runs to its first      *)
(* await in one step, with the values its closure captured at the last     *)
(* render; the code after an await is a separate step.                     *)
(***************************************************************************)
EXTENDS Integers, Sequences, FiniteSets, TLC

VARIABLES
    messages,                     \* HomePage: ChatMessage[]
    isLoading,                    \* HomePage: boolean
    userProfile,                  \* HomePage: UserProfile
    vitalSigns,                   \* HomePage: VitalSigns[]
    isProfileModalOpen,           \* HomePage: boolean
    currentAiFollowUpKey,         \* HomePage: AISuggestedKey | undefined
    lastUserQuestionForFollowUp,  \* HomePage: string | undefined
    profile,                      \* UserProfileModal: the edited copy
    focusedField,                 \* UserProfileModal: AISuggestedKey | null
    inflight,                     \* collaborator calls awaiting settlement
    calls,                        \* every request handed to the collaborator
    toasted,                      \* notifications emitted by the last handler
    now,                          \* Date.now()
    edits,                        \* number of handleChange calls so far
    event,                        \* the handler that ran in the last step
    vcType,                       \* VitalSignsTracker: type of the rendered card
    vcValue,                      \* VitalSignsTracker: value of the rendered card
    vcStatus,                     \* VitalSignsTracker: status shown on the card
    isManualEntryOpen,            \* VitalSignsTracker: boolean
    manualVitals,                 \* VitalSignsTracker: Partial<VitalSigns>
    selectedVitalType,            \* VitalSignsTracker: keyof VitalSigns
    medications,                  \* HomePage: Medication[]
    sosAlerts,                    \* HomePage: SOSAlert[]
    isSOSModalOpen,               \* SOSButton: boolean
    symptoms,                     \* SOSButton: string
    severity,                     \* SOSButton: 'low' | 'medium' | 'high' | 'critical'
    currentAlert,                 \* SOSButton: SOSAlert | null
    medicationsTabOpen,           \* HomePage: activeTab === 'medications'
    prescriptionImages,           \* PrescriptionAnalyzer: PrescriptionImage[]
    isAnalyzing,                  \* PrescriptionAnalyzer: boolean
    analyses,                     \* analyses awaiting the end of their delay
    isEditing,                    \* PrescriptionAnalyzer: boolean
    editingMedication,            \* PrescriptionAnalyzer: Medication | null
    usedRow                       \* the row whose edit or remove button was used last

chatVars == <<messages, isLoading, userProfile, vitalSigns, isProfileModalOpen,
              currentAiFollowUpKey, lastUserQuestionForFollowUp, profile,
              focusedField, inflight, calls, toasted, now, edits, event>>
vitalVars == <<vcType, vcValue, vcStatus>>
trackerVars == <<isManualEntryOpen, manualVitals, selectedVitalType>>
analyzerVars == <<medicationsTabOpen, prescriptionImages, isAnalyzing, analyses,
                  isEditing, editingMedication, usedRow>>
medVars == <<medications, analyzerVars>>
sosButtonVars == <<isSOSModalOpen, symptoms, severity, currentAlert>>
sosVars == <<sosAlerts, isSOSModalOpen, symptoms, severity, currentAlert>>
componentVars == <<vitalVars, trackerVars, medVars, sosVars>>
vars == <<messages, isLoading, userProfile, vitalSigns, isProfileModalOpen,
          currentAiFollowUpKey, lastUserQuestionForFollowUp, profile,
          focusedField, inflight, calls, toasted, now, edits, event,
          vcType, vcValue, vcStatus,
          isManualEntryOpen, manualVitals, selectedVitalType,
          medications, sosAlerts, isSOSModalOpen, symptoms, severity, currentAlert,
          medicationsTabOpen, prescriptionImages, isAnalyzing, analyses,
          isEditing, editingMedication, usedRow>>

----------------------------------------------------------------------------
(* Bounds *)

\* the questions asked, fields edited, readings entered, medication lists
\* stored and alerts raised in a session of the conversation
MaxInputs == 2

\* the readings entered and questions asked in a session of the tracker
MaxReadings == 3

\* the contact fields edited and alerts raised in a session of the SOS button
MaxContactInputs == 4

\* the alerts raised in a session of the SOS dialog
MaxAlerts == 3

\* the images uploaded and medication fields edited in a session of the
\* analyzer
MaxUploads == 2

----------------------------------------------------------------------------
(* JavaScript values *)

Undefined == "undefined"

Num(n) == [type |-> "number", num |-> n, str |-> "", obj |-> << >>]
Str(s) == [type |-> "string", num |-> 0, str |-> s, obj |-> << >>]
Undef == [type |-> "undefined", num |-> 0, str |-> "", obj |-> << >>]
\* an object: its own properties in insertion order
Obj(o) == [type |-> "object", num |-> 0, str |-> "", obj |-> o]

\* JavaScript truthiness: 0 and "" and undefined are falsy, an object is truthy
Truthy(v) ==
    CASE v.type = "number" -> v.num # 0
      [] v.type = "string" -> v.str # ""
      [] v.type = "object" -> TRUE
      [] OTHER -> FALSE

\* String.prototype.trim on the strings of the model
Trim(s) == IF s = " " THEN "" ELSE s

\* value.toString().trim() !== '': an object prints as "[object Object]"
ToStringTrimmedNonEmpty(v) ==
    CASE v.type = "number" -> TRUE
      [] v.type = "string" -> Trim(v.str) # ""
      [] v.type = "object" -> TRUE
      [] OTHER -> FALSE

----------------------------------------------------------------------------
(* UserProfile: an object is its own properties in insertion order *)

ProfileKeys == {"age", "medicalHistory", "emergencyContact"}

EmptyProfile == << >>

HasKey(p, k) == \E i \in 1..Len(p) : p[i].key = k

\* p[k]
Get(p, k) ==
    IF HasKey(p, k)
    THEN p[CHOOSE i \in 1..Len(p) : p[i].key = k].value
    ELSE Undef

\* { ...prev, [field]: value }: an existing property keeps its place, a new
\* one goes last
SpreadSet(p, k, v) ==
    IF HasKey(p, k)
    THEN [i \in 1..Len(p) |-> IF p[i].key = k THEN [key |-> k, value |-> v] ELSE p[i]]
    ELSE Append(p, [key |-> k, value |-> v])

\* JSON.stringify: the properties in insertion order, undefined ones left out
IsDefined(e) == e.value.type # "undefined"
JSONStringify(p) == SelectSeq(p, IsDefined)

\* the profile as a mapping of field to value, whatever the property order
ByValue(p) == [k \in ProfileKeys |-> Get(p, k)]

----------------------------------------------------------------------------
(* Vital-sign values: numbers are held in tenths (36.1 is 361) *)

VNum(n) == [type |-> "number", num |-> n, systolic |-> 0, diastolic |-> 0]
VBp(s, d) == [type |-> "object", num |-> 0, systolic |-> s, diastolic |-> d]
VUndef == [type |-> "undefined", num |-> 0, systolic |-> 0, diastolic |-> 0]

\* the reading a manual entry hands to onVitalSignsUpdate
Reading(t, hr, bp) == [timestamp |-> t, heartRate |-> hr, bloodPressure |-> bp]

\* a heart rate of 72 entered by hand
NewReadings(t) == {Reading(t, VNum(720), VUndef)}

----------------------------------------------------------------------------
(* Chat messages *)

Questions == {"q1"}

ThinkingText == <<"Thinking...">>
NeedMoreInfoText == <<"To provide a more accurate response, I need a little more information.">>
InsightsHeader == "\n\n**Health Insights:**\n"
RecommendationsHeader == "\n\n**Recommendations:**\n"
ErrorText == <<"Sorry, I encountered an error. Please try again later.">>
ProfileUpdatedText == <<"Your information has been updated. I'll use this to refine my answer.">>
RefiningText == <<"Refining answer...">>
ThankYouText == "Thank you for the information. How else can I help you?"
RefineErrorText == <<"Sorry, I encountered an error while refining the answer. Please try again.">>
AcknowledgementText == <<"Your health information has been updated. How can I assist you now?">>
CancelFollowUpText == <<"Okay, I understand. If you change your mind, you can update your info anytime. How else can I help you today?">>
WelcomeText == <<"Hello! I'm Med Genie, your AI health assistant.">>

Message(prefix, t, text, sender, loading, followUp) ==
    [id |-> <<prefix, t>>, text |-> text, sender |-> sender,
     isLoading |-> loading, isFollowUpPrompt |-> followUp, feedback |-> "none"]

initialWelcomeMessage == Message("welcome-message", 0, WelcomeText, "ai", FALSE, FALSE)

\* the filter left out: the pending turn stays
RemoveById_Kept(msgs, id) == msgs

\* prev.filter(msg => msg.id !== id)
RemoveById(msgs, id) ==
    LET keep(m) == m.id # id IN SelectSeq(msgs, keep)

\* list.map(x => `* ${x}`).join('\n')
RECURSIVE Bullets(_)
Bullets(list) ==
    IF Len(list) = 0 THEN << >>
    ELSE IF Len(list) = 1 THEN <<"* ", list[1]>>
    ELSE <<"* ", list[1], "\n">> \o Bullets(Tail(list))

\* answer, then the insights section, then the recommendations section
WithSections(base, result) ==
    base
    \o (IF Len(result.healthInsights) > 0
        THEN <<InsightsHeader>> \o Bullets(result.healthInsights) ELSE << >>)
    \o (IF Len(result.recommendations) > 0
        THEN <<RecommendationsHeader>> \o Bullets(result.recommendations) ELSE << >>)

----------------------------------------------------------------------------
(* The question-answering collaborator *)

Result(a, f, k, ins, rec) ==
    [answer |-> a, followUpQuestion |-> f, suggestedKey |-> k,
     healthInsights |-> ins, recommendations |-> rec]

\* the responses the collaborator is taken to give
Results ==
    { Result("A", Undefined, Undefined, <<"i1", "i2">>, <<"r1">>),
      Result("A", "F", "age", << >>, << >>),
      Result("F", "F", "medicalHistory", << >>, << >>),
      Result("", "F", Undefined, << >>, << >>) }

NoResult == Result(Undefined, Undefined, Undefined, << >>, << >>)

\* result.followUpQuestion as a condition
HasFollowUp(result) == result.followUpQuestion \notin {Undefined, ""}

\* the profile fields a request carries
InputKeys == {"age", "medicalHistory"}

\* the last element of the store taken for the latest reading
LatestVitals_Last(vs) == IF Len(vs) > 0 THEN <<vs[Len(vs)]>> ELSE << >>

\* vitalSigns.length > 0 ? vitalSigns[0] : undefined
LatestVitals(vs) == IF Len(vs) > 0 THEN <<vs[1]>> ELSE << >>

\* the age left out of the request
BuildInput_NoAge(question, p, vs) ==
    [question |-> question,
     fields |-> [k \in InputKeys |-> IF k = "age" THEN Undef ELSE Get(p, k)],
     vitalSigns |-> LatestVitals(vs)]

\* PersonalizedHealthQuestionAnsweringInput
BuildInput(question, p, vs) ==
    [question |-> question,
     fields |-> [k \in InputKeys |-> Get(p, k)],
     vitalSigns |-> LatestVitals(vs)]

Call(kind, question, loadingId, input) ==
    [kind |-> kind, question |-> question, loadingId |-> loadingId, input |-> input]

NoCall == Call("none", Undefined, <<"none", 0>>, BuildInput(Undefined, EmptyProfile, << >>))

Event(op, question, call, result) ==
    [op |-> op, question |-> question, call |-> call, result |-> result]

\* Date.now() at a handler: handlers are taken to run at distinct
\* milliseconds, and the clock is counted in the instants at which a handler
\* stamped a turn or a reading
Times == {now + 1}

\* UserProfileModal effect on [isOpen, aiSuggestedKey]
FocusEffect(open, key) == IF open /\ key # Undefined THEN key ELSE "null"

\* the kinds of reading the manual entry is taken to offer
TrackerKinds == {"heartRate", "bloodPressure"}

\* useState<Partial<VitalSigns>>({})
NoManualVitals == [k \in TrackerKinds |-> VUndef]

\* SOSAlert
Alert(t, s, sev, status, notified) ==
    [id |-> <<"sos", t>>, timestamp |-> t, symptoms |-> s, severity |-> sev,
     status |-> status, emergencyContactNotified |-> notified]

\* useState<SOSAlert | null>(null)
NoAlert == Alert(0, "", "none", "none", FALSE)

\* a Medication, with its name and one of its other fields
Medication(name, dosage) == [name |-> name, dosage |-> dosage]

\* editingMedication === null
NoMedication == Medication("", "")

----------------------------------------------------------------------------
(* HomePage *)

\* the number of user turns
UserTurns(msgs) == LET fromUser(m) == m.sender = "user" IN Len(SelectSeq(msgs, fromUser))

\* what the user has put in so far: questions, edits, readings, medication
\* lists and alerts
Inputs == UserTurns(messages) + edits + Len(vitalSigns) + Len(medications) + Len(sosAlerts)

\* the dialogs are modal: the page behind an open dialog takes no input
PageEnabled ==
    ~isProfileModalOpen /\ ~isManualEntryOpen /\ ~isSOSModalOpen /\ ~isEditing

\* the form left enabled while a call is pending
SubmitEnabled_WhileLoading == PageEnabled

\* ChatInputForm is disabled while isLoading, and takes no input behind an
\* open dialog
SubmitEnabled == ~isLoading /\ PageEnabled

\* handleSubmitQuestion up to its await
HandleSubmitQuestion(question, t) ==
    LET userMessage == Message("user", t, <<question>>, "user", FALSE, FALSE)
        aiLoadingMessage == Message("ai-loading", t, ThinkingText, "ai", TRUE, FALSE)
        input == BuildInput(question, userProfile, vitalSigns)
        call == Call("submit", question, aiLoadingMessage.id, input)
    IN  /\ SubmitEnabled
        /\ messages' = messages \o <<userMessage, aiLoadingMessage>>
        /\ isLoading' = TRUE
        /\ calls' = Append(calls, input)
        /\ inflight' = inflight \cup {call}
        /\ toasted' = << >>
        /\ now' = t
        /\ event' = Event("submit", question, call, NoResult)
        /\ UNCHANGED <<userProfile, vitalSigns, isProfileModalOpen,
                       currentAiFollowUpKey, lastUserQuestionForFollowUp,
                       profile, focusedField, edits>>

\* the answer shown whatever it is
aiInfoMessageText_Answer(result) == <<result.answer>>

\* result.answer && result.answer !== result.followUpQuestion ? result.answer
\* : "To provide a more accurate response, ..."
aiInfoMessageText(result) ==
    IF result.answer \notin {Undefined, ""} /\ result.answer # result.followUpQuestion
    THEN <<result.answer>> ELSE NeedMoreInfoText

\* a follow-up surfaced as the follow-up prompt alone
SubmitResponseMessages_PromptOnly(result, t) ==
    IF HasFollowUp(result)
    THEN << Message("ai-followup-prompt", t, <<result.followUpQuestion>>, "ai", FALSE, TRUE) >>
    ELSE << Message("ai-response", t, WithSections(<<result.answer>>, result), "ai", FALSE, FALSE) >>

\* the turns a response to a submit puts in place of the pending turn
SubmitResponseMessages(result, t) ==
    IF HasFollowUp(result)
    THEN << Message("ai-info", t, aiInfoMessageText(result), "ai", FALSE, FALSE),
                Message("ai-followup-prompt", t, <<result.followUpQuestion>>, "ai", FALSE, TRUE) >>
    ELSE << Message("ai-response", t, WithSections(<<result.answer>>, result), "ai", FALSE, FALSE) >>

\* handleSubmitQuestion after its await, the call resolved
SubmitResolve(call, result, t) ==
    /\ call \in inflight
    /\ call.kind = "submit"
    /\ inflight' = inflight \ {call}
    /\ messages' = RemoveById(messages, call.loadingId) \o SubmitResponseMessages(result, t)
    /\ IF HasFollowUp(result)
       THEN /\ currentAiFollowUpKey' = result.suggestedKey
            /\ lastUserQuestionForFollowUp' = call.question
            /\ isProfileModalOpen' = TRUE
       ELSE UNCHANGED <<currentAiFollowUpKey, lastUserQuestionForFollowUp, isProfileModalOpen>>
    /\ focusedField' = FocusEffect(isProfileModalOpen', currentAiFollowUpKey')
    /\ isLoading' = FALSE
    /\ toasted' = << >>
    /\ now' = t
    /\ event' = Event("submit-resolve", call.question, call, result)
    /\ UNCHANGED <<userProfile, vitalSigns, profile, calls, edits>>

\* the finally block left out: the loading flag stays set
SubmitReject_StillLoading(call, t) ==
    /\ call \in inflight
    /\ call.kind = "submit"
    /\ inflight' = inflight \ {call}
    /\ messages' = Append(RemoveById(messages, call.loadingId),
                          Message("ai-error", t, ErrorText, "ai", FALSE, FALSE))
    /\ toasted' = <<"Error">>
    /\ now' = t
    /\ event' = Event("submit-reject", call.question, call, NoResult)
    /\ UNCHANGED <<isLoading, userProfile, vitalSigns, isProfileModalOpen,
                   currentAiFollowUpKey, lastUserQuestionForFollowUp, profile,
                   focusedField, calls, edits>>

\* handleSubmitQuestion after its await, the call rejected
SubmitReject(call, t) ==
    /\ call \in inflight
    /\ call.kind = "submit"
    /\ inflight' = inflight \ {call}
    /\ messages' = Append(RemoveById(messages, call.loadingId),
                          Message("ai-error", t, ErrorText, "ai", FALSE, FALSE))
    /\ toasted' = <<"Error">>
    /\ isLoading' = FALSE
    /\ now' = t
    /\ event' = Event("submit-reject", call.question, call, NoResult)
    /\ UNCHANGED <<userProfile, vitalSigns, isProfileModalOpen, currentAiFollowUpKey,
                   lastUserQuestionForFollowUp, profile, focusedField, calls, edits>>

\* the refine request built from the profile of the closure
RefineInput_Stale(question, oldProfile, newProfileData, vs) ==
    BuildInput(question, oldProfile, vs)

\* updatedInput of handleSaveProfile: built from newProfileData, not from the
\* userProfile of the closure
RefineInput(question, oldProfile, newProfileData, vs) ==
    BuildInput(question, newProfileData, vs)

\* the acknowledgment appended whether or not the profile changed
SaveProfileMessages_AlwaysAck(oldProfile, newProfileData, lastQuestion, t) ==
    IF lastQuestion # Undefined
    THEN << Message("system-profile-updated", t, ProfileUpdatedText, "ai", FALSE, TRUE),
            Message("ai-loading-refine", t, RefiningText, "ai", TRUE, FALSE) >>
    ELSE << Message("system-profile-ack", t, AcknowledgementText, "ai", FALSE, FALSE) >>

\* handleSaveProfile up to its await: the turns it appends
SaveProfileMessages(oldProfile, newProfileData, lastQuestion, t) ==
    IF lastQuestion # Undefined
    THEN << Message("system-profile-updated", t, ProfileUpdatedText, "ai", FALSE, TRUE),
            Message("ai-loading-refine", t, RefiningText, "ai", TRUE, FALSE) >>
    ELSE IF JSONStringify(oldProfile) # JSONStringify(newProfileData)
         THEN << Message("system-profile-ack", t, AcknowledgementText, "ai", FALSE, FALSE) >>
         ELSE << >>

\* relevantProfileFieldFilled of handleCloseProfileModal
RelevantProfileFieldFilled(p, key) ==
    Truthy(Get(p, key)) /\ ToStringTrimmedNonEmpty(Get(p, key))

\* the test of currentAiFollowUpKey left out
CloseProfileModalMessages_AnyKey(p, lastQuestion, key, t) ==
    IF lastQuestion # Undefined /\ ~RelevantProfileFieldFilled(p, key)
    THEN << Message("ai-cancel-followup", t, CancelFollowUpText, "ai", FALSE, TRUE) >>
    ELSE << >>

\* handleCloseProfileModal: the turns it appends, given the profile, question
\* and key its closure holds
CloseProfileModalMessages(p, lastQuestion, key, t) ==
    IF lastQuestion # Undefined /\ key # Undefined /\ ~RelevantProfileFieldFilled(p, key)
    THEN << Message("ai-cancel-followup", t, CancelFollowUpText, "ai", FALSE, TRUE) >>
    ELSE << >>

\* the edited copy stored when the editor is cancelled
HandleCloseProfileModal_Stores(t) ==
    /\ isProfileModalOpen
    /\ isProfileModalOpen' = FALSE
    /\ userProfile' = profile
    /\ messages' = messages \o CloseProfileModalMessages(userProfile,
                        lastUserQuestionForFollowUp, currentAiFollowUpKey, t)
    /\ lastUserQuestionForFollowUp' = Undefined
    /\ currentAiFollowUpKey' = Undefined
    /\ focusedField' = FocusEffect(FALSE, Undefined)
    /\ toasted' = << >>
    /\ now' = IF messages' # messages THEN t ELSE now
    /\ event' = Event("cancel", lastUserQuestionForFollowUp, NoCall, NoResult)
    /\ UNCHANGED <<isLoading, vitalSigns, profile, inflight, calls, edits>>

\* handleCloseProfileModal, called by the dialog's Cancel button or dismissal
HandleCloseProfileModal(t) ==
    /\ isProfileModalOpen
    /\ isProfileModalOpen' = FALSE
    /\ messages' = messages \o CloseProfileModalMessages(userProfile,
                        lastUserQuestionForFollowUp, currentAiFollowUpKey, t)
    /\ lastUserQuestionForFollowUp' = Undefined
    /\ currentAiFollowUpKey' = Undefined
    /\ focusedField' = FocusEffect(FALSE, Undefined)
    /\ toasted' = << >>
    /\ now' = IF messages' # messages THEN t ELSE now
    /\ event' = Event("cancel", lastUserQuestionForFollowUp, NoCall, NoResult)
    /\ UNCHANGED <<isLoading, userProfile, vitalSigns, profile, inflight, calls, edits>>

\* the save without the onClose() that follows onSave
HandleSave_NoClose(t) ==
    LET refine == lastUserQuestionForFollowUp # Undefined
        input == RefineInput(lastUserQuestionForFollowUp, userProfile, profile, vitalSigns)
        call == Call("refine", lastUserQuestionForFollowUp, <<"ai-loading-refine", t>>, input)
    IN  /\ isProfileModalOpen
        /\ userProfile' = profile
        /\ isProfileModalOpen' = FALSE
        /\ messages' = messages
              \o SaveProfileMessages(userProfile, profile, lastUserQuestionForFollowUp, t)
        /\ IF refine
           THEN /\ isLoading' = TRUE
                /\ calls' = Append(calls, input)
                /\ inflight' = inflight \cup {call}
           ELSE UNCHANGED <<isLoading, calls, inflight>>
        /\ toasted' = <<"Profile Updated">>
        /\ focusedField' = FocusEffect(FALSE, currentAiFollowUpKey)
        /\ now' = IF messages' # messages THEN t ELSE now
        /\ event' = Event("save", lastUserQuestionForFollowUp,
                          IF refine THEN call ELSE NoCall, NoResult)
        /\ UNCHANGED <<vitalSigns, profile, edits, lastUserQuestionForFollowUp,
                       currentAiFollowUpKey>>

\* UserProfileModal.handleSave: onSave(profile), which is handleSaveProfile up
\* to its await, then the toast, then onClose(), which is
\* handleCloseProfileModal of the same render (the state it reads is the
\* state before the save)
HandleSave(t) ==
    LET refine == lastUserQuestionForFollowUp # Undefined
        input == RefineInput(lastUserQuestionForFollowUp, userProfile, profile, vitalSigns)
        call == Call("refine", lastUserQuestionForFollowUp, <<"ai-loading-refine", t>>, input)
    IN  /\ isProfileModalOpen
        /\ userProfile' = profile
        /\ isProfileModalOpen' = FALSE
        /\ messages' = messages
              \o SaveProfileMessages(userProfile, profile, lastUserQuestionForFollowUp, t)
              \o CloseProfileModalMessages(userProfile, lastUserQuestionForFollowUp,
                                           currentAiFollowUpKey, t)
        /\ IF refine
           THEN /\ isLoading' = TRUE
                /\ calls' = Append(calls, input)
                /\ inflight' = inflight \cup {call}
           ELSE UNCHANGED <<isLoading, calls, inflight>>
        /\ toasted' = <<"Profile Updated">>
        /\ lastUserQuestionForFollowUp' = Undefined
        /\ currentAiFollowUpKey' = Undefined
        /\ focusedField' = FocusEffect(FALSE, Undefined)
        /\ now' = IF messages' # messages THEN t ELSE now
        /\ event' = Event("save", lastUserQuestionForFollowUp,
                          IF refine THEN call ELSE NoCall, NoResult)
        /\ UNCHANGED <<vitalSigns, profile, edits>>

\* the turns a response to a refine puts in place of the pending turn
RefineResponseMessages(result, t) ==
    LET responseText ==
            WithSections(<<IF result.answer # "" THEN result.answer ELSE ThankYouText>>, result)
    IN  <<Message("ai-refined-response", t, responseText, "ai", FALSE, FALSE)>>
        \o (IF HasFollowUp(result)
            THEN <<Message("ai-refined-followup", t, <<result.followUpQuestion>>, "ai", FALSE, TRUE)>>
            ELSE << >>)

\* a follow-up of the refine handled as the follow-up of a submit is: the
\* question kept pending and the editor opened again
RefineResolve_Rearmed(call, result, t) ==
    /\ call \in inflight
    /\ call.kind = "refine"
    /\ inflight' = inflight \ {call}
    /\ messages' = RemoveById(messages, call.loadingId) \o RefineResponseMessages(result, t)
    /\ toasted' = IF HasFollowUp(result) THEN <<"Further Information Requested">> ELSE << >>
    /\ isLoading' = FALSE
    /\ IF HasFollowUp(result)
       THEN /\ currentAiFollowUpKey' = result.suggestedKey
            /\ lastUserQuestionForFollowUp' = call.question
            /\ isProfileModalOpen' = TRUE
       ELSE /\ currentAiFollowUpKey' = Undefined
            /\ lastUserQuestionForFollowUp' = Undefined
            /\ isProfileModalOpen' = isProfileModalOpen
    /\ focusedField' = FocusEffect(isProfileModalOpen', currentAiFollowUpKey')
    /\ now' = t
    /\ event' = Event("refine-resolve", call.question, call, result)
    /\ UNCHANGED <<userProfile, vitalSigns, profile, calls, edits>>

\* handleSaveProfile after its await, the call resolved
RefineResolve(call, result, t) ==
    /\ call \in inflight
    /\ call.kind = "refine"
    /\ inflight' = inflight \ {call}
    /\ messages' = RemoveById(messages, call.loadingId) \o RefineResponseMessages(result, t)
    /\ toasted' = IF HasFollowUp(result) THEN <<"Further Information Requested">> ELSE << >>
    /\ isLoading' = FALSE
    /\ lastUserQuestionForFollowUp' = Undefined
    /\ currentAiFollowUpKey' = Undefined
    /\ focusedField' = FocusEffect(isProfileModalOpen, Undefined)
    /\ now' = t
    /\ event' = Event("refine-resolve", call.question, call, result)
    /\ UNCHANGED <<userProfile, vitalSigns, isProfileModalOpen, profile, calls, edits>>

\* the finally block left out: the loading flag stays set
RefineReject_StillLoading(call, t) ==
    /\ call \in inflight
    /\ call.kind = "refine"
    /\ inflight' = inflight \ {call}
    /\ messages' = Append(RemoveById(messages, call.loadingId),
                          Message("ai-error-refine", t, RefineErrorText, "ai", FALSE, FALSE))
    /\ toasted' = <<"Refinement Error">>
    /\ focusedField' = FocusEffect(isProfileModalOpen, currentAiFollowUpKey)
    /\ now' = t
    /\ event' = Event("refine-reject", call.question, call, NoResult)
    /\ UNCHANGED <<isLoading, lastUserQuestionForFollowUp, currentAiFollowUpKey,
                   userProfile, vitalSigns, isProfileModalOpen, profile, calls, edits>>

\* handleSaveProfile after its await, the call rejected
RefineReject(call, t) ==
    /\ call \in inflight
    /\ call.kind = "refine"
    /\ inflight' = inflight \ {call}
    /\ messages' = Append(RemoveById(messages, call.loadingId),
                          Message("ai-error-refine", t, RefineErrorText, "ai", FALSE, FALSE))
    /\ toasted' = <<"Refinement Error">>
    /\ isLoading' = FALSE
    /\ lastUserQuestionForFollowUp' = Undefined
    /\ currentAiFollowUpKey' = Undefined
    /\ focusedField' = FocusEffect(isProfileModalOpen, Undefined)
    /\ now' = t
    /\ event' = Event("refine-reject", call.question, call, NoResult)
    /\ UNCHANGED <<userProfile, vitalSigns, isProfileModalOpen, profile, calls, edits>>

\* the "Update Health Info" and "Update Profile" buttons
OpenProfileModal ==
    /\ PageEnabled
    /\ isProfileModalOpen' = TRUE
    /\ focusedField' = FocusEffect(TRUE, currentAiFollowUpKey)
    /\ toasted' = << >>
    /\ event' = Event("open", Undefined, NoCall, NoResult)
    /\ UNCHANGED <<messages, isLoading, userProfile, vitalSigns, currentAiFollowUpKey,
                   lastUserQuestionForFollowUp, profile, inflight, calls, now, edits>>

\* the new element put last
Prepended_Last(x, prev) == Append(prev, x)

\* [x, ...prev]
Prepended(x, prev) == <<x>> \o prev

\* handleVitalSignsUpdate, called by the manual entry of the tracker, which
\* is behind the profile dialog while that is open
HandleVitalSignsUpdate(newVitals) ==
    /\ ~isProfileModalOpen
    /\ vitalSigns' = Prepended(newVitals, vitalSigns)
    /\ toasted' = <<"Vital Signs Updated">>
    /\ now' = newVitals.timestamp
    /\ event' = Event("vitals", Undefined, NoCall, NoResult)
    /\ UNCHANGED <<messages, isLoading, userProfile, isProfileModalOpen,
                   currentAiFollowUpKey, lastUserQuestionForFollowUp, profile,
                   focusedField, inflight, calls, edits>>

----------------------------------------------------------------------------
(* UserProfileModal *)

\* what the inputs of the editor hand to handleChange: parseInt(..) || 0 for
\* age, the text as typed for medicalHistory
ChangeInputs ==
    { <<"age", Num(0)>>, <<"age", Num(34)>>,
      <<"medicalHistory", Str(" ")>>, <<"medicalHistory", Str("asthma")>> }

\* handleChange
HandleChange(field, value) ==
    /\ isProfileModalOpen
    /\ profile' = SpreadSet(profile, field, value)
    /\ edits' = edits + 1
    /\ toasted' = << >>
    /\ event' = Event("change", Undefined, NoCall, NoResult)
    /\ UNCHANGED <<messages, isLoading, userProfile, vitalSigns, isProfileModalOpen,
                   currentAiFollowUpKey, lastUserQuestionForFollowUp, focusedField,
                   inflight, calls, now>>

----------------------------------------------------------------------------

Init ==
    /\ messages = <<initialWelcomeMessage>>
    /\ isLoading = FALSE
    /\ userProfile = EmptyProfile
    /\ vitalSigns = << >>
    /\ isProfileModalOpen = FALSE
    /\ currentAiFollowUpKey = Undefined
    /\ lastUserQuestionForFollowUp = Undefined
    /\ profile = EmptyProfile
    /\ focusedField = "null"
    /\ inflight = {}
    /\ calls = << >>
    /\ toasted = << >>
    /\ now = 0
    /\ edits = 0
    /\ event = Event("init", Undefined, NoCall, NoResult)
    /\ vcType = "none"
    /\ vcValue = VUndef
    /\ vcStatus = "none"
    /\ isManualEntryOpen = FALSE
    /\ manualVitals = NoManualVitals
    /\ selectedVitalType = "heartRate"
    /\ medications = << >>
    /\ sosAlerts = << >>
    /\ isSOSModalOpen = FALSE
    /\ symptoms = ""
    /\ severity = "medium"
    /\ currentAlert = NoAlert
    /\ medicationsTabOpen = FALSE
    /\ prescriptionImages = << >>
    /\ isAnalyzing = FALSE
    /\ analyses = {}
    /\ isEditing = FALSE
    /\ editingMedication = NoMedication
    /\ usedRow = 0

\* the steps of the conversation: a session takes MaxInputs inputs
Next ==
    \/ /\ Inputs < MaxInputs
       /\ \E q \in Questions, t \in Times : HandleSubmitQuestion(q, t) /\ UNCHANGED componentVars
    \/ \E c \in inflight, r \in Results, t \in Times : SubmitResolve(c, r, t) /\ UNCHANGED componentVars
    \/ \E c \in inflight, t \in Times : SubmitReject(c, t) /\ UNCHANGED componentVars
    \/ \E t \in Times : HandleSave(t) /\ UNCHANGED componentVars
    \/ \E t \in Times : HandleCloseProfileModal(t) /\ UNCHANGED componentVars
    \/ \E c \in inflight, r \in Results, t \in Times : RefineResolve(c, r, t) /\ UNCHANGED componentVars
    \/ \E c \in inflight, t \in Times : RefineReject(c, t) /\ UNCHANGED componentVars
    \/ OpenProfileModal /\ UNCHANGED componentVars
    \/ /\ Inputs < MaxInputs
       /\ \E t \in Times : \E v \in NewReadings(t) : HandleVitalSignsUpdate(v) /\ UNCHANGED componentVars
    \/ /\ Inputs < MaxInputs
       /\ \E c \in ChangeInputs : HandleChange(c[1], c[2]) /\ UNCHANGED componentVars

Spec == Init /\ [][Next]_vars

----------------------------------------------------------------------------
(* VitalSignsTracker: the status of a rendered reading *)

\* normalRanges, in tenths
normalRanges ==
    [heartRate |-> [min |-> 600, max |-> 1000],
     bloodPressure |-> [systolic |-> [min |-> 900, max |-> 1400],
                        diastolic |-> [min |-> 600, max |-> 900]],
     temperature |-> [min |-> 361, max |-> 372],
     oxygenSaturation |-> [min |-> 950, max |-> 1000],
     bloodGlucose |-> [min |-> 700, max |-> 1400],
     steps |-> [min |-> 0, max |-> 100000],
     sleepHours |-> [min |-> 70, max |-> 90]]

ScalarKinds == {"heartRate", "temperature", "oxygenSaturation", "bloodGlucose",
                "steps", "sleepHours"}

\* value < n and value > n of JavaScript: an object operand converts to NaN,
\* and every comparison with NaN is false
JsLess(value, n) == value.type = "number" /\ value.num < n
JsGreater(value, n) == value.type = "number" /\ value.num > n

\* the bounds of a range taken as outside it
getVitalStatus_Exclusive(type, value) ==
    IF type \notin DOMAIN normalRanges THEN "normal"
    ELSE IF type = "bloodPressure"
    THEN IF \/ JsGreater(value, normalRanges.bloodPressure.systolic.max - 1)
            \/ JsLess(value, normalRanges.bloodPressure.systolic.min + 1)
         THEN "warning" ELSE "normal"
    ELSE IF \/ JsLess(value, normalRanges[type].min + 1)
            \/ JsGreater(value, normalRanges[type].max - 1)
         THEN "warning" ELSE "normal"

\* getVitalStatus
getVitalStatus(type, value) ==
    IF type \notin DOMAIN normalRanges THEN "normal"
    ELSE IF type = "bloodPressure"
    THEN IF \/ JsGreater(value, normalRanges.bloodPressure.systolic.max)
            \/ JsLess(value, normalRanges.bloodPressure.systolic.min)
         THEN "warning" ELSE "normal"
    ELSE IF JsLess(value, normalRanges[type].min) \/ JsGreater(value, normalRanges[type].max)
         THEN "warning" ELSE "normal"

\* the numbers a reading is taken to carry: each bound of normalRanges, the
\* value a tenth to either side of it, and the values 45, 72 and 150
RangeBounds ==
    UNION {{normalRanges[k].min, normalRanges[k].max} : k \in ScalarKinds}
    \cup {normalRanges.bloodPressure.systolic.min, normalRanges.bloodPressure.systolic.max,
          normalRanges.bloodPressure.diastolic.min, normalRanges.bloodPressure.diastolic.max}
Numbers == UNION {{b - 1, b, b + 1} : b \in RangeBounds} \cup {450, 720, 1500}

\* a value as a condition: 0 is falsy, an object is truthy
VitalTruthy(value) == value.type = "object" \/ (value.type = "number" /\ value.num # 0)

\* the cards the grid renders: {latestVitals.x && renderVitalCard('x',
\* latestVitals.x, ..)}, a number for a scalar kind and the
\* {systolic, diastolic} object for bloodPressure
CardInputs ==
    {<<k, VNum(n)>> : k \in ScalarKinds, n \in Numbers}
    \cup {<<"bloodPressure", VBp(sy, di)>> : sy \in Numbers, di \in {500, 700, 950}}

\* renderVitalCard
RenderVitalCard(type, value) ==
    /\ VitalTruthy(value)
    /\ vcType' = type
    /\ vcValue' = value
    /\ vcStatus' = getVitalStatus(type, value)
    /\ UNCHANGED <<chatVars, trackerVars, medVars, sosVars>>

NextVitals == \E c \in CardInputs : RenderVitalCard(c[1], c[2])

SpecVitals == Init /\ [][NextVitals]_vars

----------------------------------------------------------------------------
(* VitalSignsTracker: the manual entry *)

\* the state of HomePage and of the profile editor that the components
\* other than the editor leave alone
pageVars == <<messages, isLoading, userProfile, isProfileModalOpen,
              currentAiFollowUpKey, lastUserQuestionForFollowUp, profile,
              focusedField, inflight, calls, edits>>

\* what the value input hands to setManualVitals: parseFloat(..) || 0
ManualInputs == {VNum(0), VNum(720)}

\* the "Add Manual Entry" buttons
OpenManualEntry ==
    /\ PageEnabled
    /\ isManualEntryOpen' = TRUE
    /\ toasted' = << >>
    /\ event' = Event("entry-open", Undefined, NoCall, NoResult)
    /\ UNCHANGED <<pageVars, vitalSigns, now, manualVitals, selectedVitalType,
                   vitalVars, medVars, sosVars>>

\* the Cancel button of the manual entry dialog
CancelManualEntry ==
    /\ isManualEntryOpen
    /\ ~isProfileModalOpen
    /\ isManualEntryOpen' = FALSE
    /\ toasted' = << >>
    /\ event' = Event("entry-cancel", Undefined, NoCall, NoResult)
    /\ UNCHANGED <<pageVars, vitalSigns, now, manualVitals, selectedVitalType,
                   vitalVars, medVars, sosVars>>

\* onValueChange of the kind select
SelectVitalType(type) ==
    /\ isManualEntryOpen
    /\ ~isProfileModalOpen
    /\ selectedVitalType' = type
    /\ toasted' = << >>
    /\ event' = Event("entry-kind", Undefined, NoCall, NoResult)
    /\ UNCHANGED <<pageVars, vitalSigns, now, isManualEntryOpen, manualVitals,
                   vitalVars, medVars, sosVars>>

\* onChange of the value input
ManualValueChange(value) ==
    /\ isManualEntryOpen
    /\ ~isProfileModalOpen
    /\ manualVitals' = [manualVitals EXCEPT ![selectedVitalType] = value]
    /\ toasted' = << >>
    /\ event' = Event("entry-value", Undefined, NoCall, NoResult)
    /\ UNCHANGED <<pageVars, vitalSigns, now, isManualEntryOpen, selectedVitalType,
                   vitalVars, medVars, sosVars>>

\* a reading that carries the typed value under every kind
ManualReading_All(t, type, value) ==
    [timestamp |-> t, heartRate |-> value, bloodPressure |-> value]

\* newVitals of handleManualEntry: the timestamp and the selected kind alone
ManualReading(t, type, value) ==
    [timestamp |-> t,
     heartRate |-> IF type = "heartRate" THEN value ELSE VUndef,
     bloodPressure |-> IF type = "bloodPressure" THEN value ELSE VUndef]

\* handleManualEntry: a missing or zero value is refused, any other value
\* is handed to onVitalSignsUpdate and the dialog is closed and emptied
HandleManualEntry(t) ==
    /\ isManualEntryOpen
    /\ ~isProfileModalOpen
    /\ IF ~VitalTruthy(manualVitals[selectedVitalType])
       THEN /\ toasted' = <<"Value Required">>
            /\ event' = Event("entry-refused", Undefined, NoCall, NoResult)
            /\ UNCHANGED <<pageVars, vitalSigns, now, trackerVars>>
       ELSE /\ HandleVitalSignsUpdate(
                   ManualReading(t, selectedVitalType, manualVitals[selectedVitalType]))
            /\ isManualEntryOpen' = FALSE
            /\ manualVitals' = NoManualVitals
            /\ UNCHANGED selectedVitalType
    /\ UNCHANGED <<vitalVars, medVars, sosVars>>

\* the steps of the tracker: a session takes MaxReadings readings
NextTracker ==
    \/ OpenManualEntry
    \/ CancelManualEntry
    \/ \E k \in TrackerKinds : SelectVitalType(k)
    \/ \E v \in ManualInputs : ManualValueChange(v)
    \/ /\ Len(vitalSigns) < MaxReadings
       /\ \E t \in Times : HandleManualEntry(t)

SpecTracker == Init /\ [][NextTracker]_vars

\* what the user has put in so far in a session of readings and questions
ReadingInputs == UserTurns(messages) + edits + Len(vitalSigns)

\* the readings next to the conversation: a session takes MaxReadings
\* readings, questions and edits
NextReadings ==
    \/ /\ ReadingInputs < MaxReadings
       /\ \E t \in Times : \E v \in NewReadings(t) : HandleVitalSignsUpdate(v) /\ UNCHANGED componentVars
    \/ /\ ReadingInputs < MaxReadings
       /\ \E q \in Questions, t \in Times : HandleSubmitQuestion(q, t) /\ UNCHANGED componentVars
    \/ \E c \in inflight, r \in Results, t \in Times : SubmitResolve(c, r, t) /\ UNCHANGED componentVars
    \/ /\ ReadingInputs < MaxReadings
       /\ \E c \in ChangeInputs : HandleChange(c[1], c[2]) /\ UNCHANGED componentVars
    \/ \E t \in Times : HandleSave(t) /\ UNCHANGED componentVars
    \/ \E c \in inflight, r \in Results, t \in Times : RefineResolve(c, r, t) /\ UNCHANGED componentVars

SpecReadings == Init /\ [][NextReadings]_vars

----------------------------------------------------------------------------
(* UserProfileModal: the emergency contact *)

\* prev.emergencyContact, spread: the properties of the contact, none when
\* the profile has no contact
ContactOf(p) ==
    IF Get(p, "emergencyContact").type = "object"
    THEN Get(p, "emergencyContact").obj ELSE << >>

\* what the three inputs of the Emergency tab hand to
\* handleEmergencyContactChange: the text as typed
ContactInputs ==
    { <<"name", "Ann">>, <<"phone", "">>, <<"phone", "555">>, <<"relationship", "sister">> }

\* handleEmergencyContactChange
HandleEmergencyContactChange(field, value) ==
    /\ isProfileModalOpen
    /\ profile' = SpreadSet(profile, "emergencyContact",
                            Obj(SpreadSet(ContactOf(profile), field, Str(value))))
    /\ edits' = edits + 1
    /\ toasted' = << >>
    /\ event' = Event("contact-change", Undefined, NoCall, NoResult)
    /\ UNCHANGED <<messages, isLoading, userProfile, vitalSigns, isProfileModalOpen,
                   currentAiFollowUpKey, lastUserQuestionForFollowUp, focusedField,
                   inflight, calls, now>>

----------------------------------------------------------------------------
(* SOSButton *)

SeverityLevels == {"medium", "critical"}

\* what the textarea hands to setSymptoms
SymptomInputs == {" ", "pain"}

\* handleSOSAlert, called by handleSubmitSOS of the button, which is behind
\* the profile dialog while that is open
HandleSOSAlert(alert) ==
    /\ ~isProfileModalOpen
    /\ sosAlerts' = Prepended(alert, sosAlerts)
    /\ toasted' = IF alert.emergencyContactNotified
                  THEN <<"Emergency Contact Notified">> ELSE << >>
    /\ now' = alert.timestamp
    /\ event' = Event("sos", Undefined, NoCall, NoResult)
    /\ UNCHANGED <<pageVars, vitalSigns, medications>>

\* handleSOSClick
HandleSOSClick ==
    /\ PageEnabled
    /\ isSOSModalOpen' = TRUE
    /\ toasted' = << >>
    /\ event' = Event("sos-open", Undefined, NoCall, NoResult)
    /\ UNCHANGED <<pageVars, vitalSigns, now, sosAlerts, symptoms, severity, currentAlert,
                   vitalVars, trackerVars, medVars>>

\* the Cancel button of the SOS dialog
CancelSOS ==
    /\ isSOSModalOpen
    /\ ~isProfileModalOpen
    /\ isSOSModalOpen' = FALSE
    /\ toasted' = << >>
    /\ event' = Event("sos-cancel", Undefined, NoCall, NoResult)
    /\ UNCHANGED <<pageVars, vitalSigns, now, sosAlerts, symptoms, severity, currentAlert,
                   vitalVars, trackerVars, medVars>>

\* onChange of the symptoms textarea
SymptomsChange(text) ==
    /\ isSOSModalOpen
    /\ ~isProfileModalOpen
    /\ symptoms' = text
    /\ toasted' = << >>
    /\ event' = Event("sos-symptoms", Undefined, NoCall, NoResult)
    /\ UNCHANGED <<pageVars, vitalSigns, now, sosAlerts, isSOSModalOpen, severity,
                   currentAlert, vitalVars, trackerVars, medVars>>

\* the severity buttons
SetSeverity(level) ==
    /\ isSOSModalOpen
    /\ ~isProfileModalOpen
    /\ severity' = level
    /\ toasted' = << >>
    /\ event' = Event("sos-severity", Undefined, NoCall, NoResult)
    /\ UNCHANGED <<pageVars, vitalSigns, now, sosAlerts, isSOSModalOpen, symptoms,
                   currentAlert, vitalVars, trackerVars, medVars>>

\* the "Send SOS Alert" button: disabled={isProcessing || !symptoms.trim()}
SOSSubmitEnabled == Trim(symptoms) # ""

\* userProfile.emergencyContact?.phone as a condition
ContactHasPhone(p) == Truthy(Get(ContactOf(p), "phone"))

\* a submit that sends whatever the textarea holds
HandleSubmitSOS_NoCheck(t) ==
    LET notified == ContactHasPhone(userProfile)
        alert == Alert(t, Trim(symptoms), severity, "active", notified)
    IN  /\ isSOSModalOpen
        /\ ~isProfileModalOpen
        /\ HandleSOSAlert(alert)
        /\ currentAlert' = alert
        /\ isSOSModalOpen' = FALSE
        /\ symptoms' = ""
        /\ severity' = "medium"
        /\ UNCHANGED <<vitalVars, trackerVars, analyzerVars>>

\* handleSubmitSOS: the alert is handed to onSOSAlert with
\* emergencyContactNotified false and then set to true in place, so the
\* stored alert and the alert of the button both end with the flag set
HandleSubmitSOS(t) ==
    LET notified == ContactHasPhone(userProfile)
        alert == Alert(t, Trim(symptoms), severity, "active", notified)
    IN  /\ isSOSModalOpen
        /\ ~isProfileModalOpen
        /\ IF Trim(symptoms) = ""
           THEN /\ toasted' = <<"Symptoms Required">>
                /\ event' = Event("sos-refused", Undefined, NoCall, NoResult)
                /\ UNCHANGED <<pageVars, vitalSigns, now, sosVars, medications>>
           ELSE /\ HandleSOSAlert(alert)
                /\ currentAlert' = alert
                /\ isSOSModalOpen' = FALSE
                /\ symptoms' = ""
                /\ severity' = "medium"
        /\ UNCHANGED <<vitalVars, trackerVars, analyzerVars>>

\* the status set whatever the status of the alert is
SetAlertStatus_Any(status) ==
    /\ PageEnabled
    /\ currentAlert # NoAlert
    /\ currentAlert' = [currentAlert EXCEPT !.status = status]
    /\ toasted' = <<IF status = "resolved" THEN "Alert Resolved" ELSE "Alert Escalated">>
    /\ event' = Event("sos-status", Undefined, NoCall, NoResult)
    /\ UNCHANGED <<pageVars, vitalSigns, now, sosAlerts, isSOSModalOpen, symptoms, severity,
                   vitalVars, trackerVars, medVars>>

\* handleResolveAlert and handleEscalateAlert, the buttons of the card shown
\* while the alert of the button is active
SetAlertStatus(status) ==
    /\ PageEnabled
    /\ currentAlert # NoAlert
    /\ currentAlert.status = "active"
    /\ currentAlert' = [currentAlert EXCEPT !.status = status]
    /\ toasted' = <<IF status = "resolved" THEN "Alert Resolved" ELSE "Alert Escalated">>
    /\ event' = Event("sos-status", Undefined, NoCall, NoResult)
    /\ UNCHANGED <<pageVars, vitalSigns, now, sosAlerts, isSOSModalOpen, symptoms, severity,
                   vitalVars, trackerVars, medVars>>

\* what the user has put in so far in a session of the SOS button
ContactSessionInputs == edits + Len(sosAlerts)

\* the steps of the SOS button next to the profile editor: a session takes
\* MaxContactInputs edits and alerts
NextSOS ==
    \/ OpenProfileModal /\ UNCHANGED componentVars
    \/ /\ ContactSessionInputs < MaxContactInputs
       /\ \E c \in ContactInputs :
             /\ c[2] = "" => Truthy(Get(ContactOf(profile), c[1]))
             /\ HandleEmergencyContactChange(c[1], c[2])
             /\ UNCHANGED componentVars
    \/ \E t \in Times : HandleSave(t) /\ UNCHANGED componentVars
    \/ \E t \in Times : HandleCloseProfileModal(t) /\ UNCHANGED componentVars
    \/ HandleSOSClick
    \/ CancelSOS
    \/ \E text \in SymptomInputs : SymptomsChange(text)
    \/ \E level \in SeverityLevels : SetSeverity(level)
    \/ /\ ContactSessionInputs < MaxContactInputs
       /\ SOSSubmitEnabled
       /\ \E t \in Times : HandleSubmitSOS(t)
    \/ \E status \in {"resolved", "escalated"} : SetAlertStatus(status)

SpecSOS == Init /\ [][NextSOS]_vars

\* the handlers of the SOS button with handleSubmitSOS called on whatever
\* the textarea holds, so that its own test of the symptoms decides: a
\* session takes MaxAlerts alerts
NextSOSHandlers ==
    \/ HandleSOSClick
    \/ CancelSOS
    \/ \E text \in SymptomInputs : SymptomsChange(text)
    \/ \E level \in SeverityLevels : SetSeverity(level)
    \/ /\ Len(sosAlerts) < MaxAlerts
       /\ \E t \in Times : HandleSubmitSOS(t)
    \/ \E status \in {"resolved", "escalated"} : SetAlertStatus(status)

SpecSOSHandlers == Init /\ [][NextSOSHandlers]_vars

----------------------------------------------------------------------------
(* HomePage: the medication list and the alerts next to the conversation *)

\* mockMedications of analyzePrescriptionImage
mockMedications == <<Medication("Metformin", "500mg"), Medication("Lisinopril", "10mg")>>

\* currentMedications.filter(med => med.name !== medicationName)
WithoutName(ms, name) == LET keep(med) == med.name # name IN SelectSeq(ms, keep)

\* the lists PrescriptionAnalyzer hands to onMedicationsUpdate, with the
\* notification that follows: the list with the analysed medications added,
\* and the list without the medications of one name
MedicationUpdates(ms) ==
    {[list |-> ms \o mockMedications, toast |-> "Analysis Complete"]}
    \cup {[list |-> WithoutName(ms, ms[i].name), toast |-> "Medication Removed"] :
            i \in 1..Len(ms)}

\* handleMedicationsUpdate, called by the handlers of PrescriptionAnalyzer
HandleMedicationsUpdate(newMedications) ==
    /\ medications' = newMedications
    /\ UNCHANGED <<messages, isLoading, userProfile, isProfileModalOpen,
                   currentAiFollowUpKey, lastUserQuestionForFollowUp, profile,
                   focusedField, inflight, calls, vitalSigns, sosAlerts>>

\* the alert SOSButton hands to onSOSAlert for the symptoms "pain"
NewAlerts(t) == {Alert(t, "pain", "medium", "active", ContactHasPhone(userProfile))}

\* the steps of the page: the conversation, the medication list and the
\* alerts; a session takes MaxInputs inputs
NextPage ==
    \/ Next
    \/ /\ Inputs < MaxInputs
       /\ \E u \in MedicationUpdates(medications) :
             /\ HandleMedicationsUpdate(u.list)
             /\ toasted' = <<u.toast>>
             /\ event' = Event("medications", Undefined, NoCall, NoResult)
             /\ UNCHANGED <<now, edits, vitalVars, trackerVars, sosButtonVars, analyzerVars>>
    \/ /\ Inputs < MaxInputs
       /\ \E t \in Times : \E a \in NewAlerts(t) :
             /\ HandleSOSAlert(a)
             /\ currentAlert' = a
             /\ UNCHANGED <<isSOSModalOpen, symptoms, severity, vitalVars, trackerVars,
                            analyzerVars>>

SpecPage == Init /\ [][NextPage]_vars

----------------------------------------------------------------------------
(* PrescriptionAnalyzer *)

\* PrescriptionImage: analysed is FALSE while its notes are 'Analysis
\* pending...' and its analyzedMedications are empty
Image(t, analysed) == [id |-> <<"img", t>>, analysed |-> analysed]

\* an analysis waiting for the end of its delay: the image it was started
\* for, the currentMedications of the render that started it, and whether
\* the component that started it is still mounted
Analysis(image, ms) == [image |-> image.id, currentMedications |-> ms, mounted |-> TRUE]

\* what the inputs of the edit dialog hand to setEditingMedication
MedicationEdits == {<<"name", "Aspirin">>, <<"name", "Lisinopril">>, <<"dosage", "850mg">>}

\* the trigger of the medications tab: the analyzer is mounted
OpenMedicationsTab ==
    /\ PageEnabled
    /\ ~medicationsTabOpen
    /\ medicationsTabOpen' = TRUE
    /\ toasted' = << >>
    /\ event' = Event("tab-open", Undefined, NoCall, NoResult)
    /\ UNCHANGED <<pageVars, vitalSigns, now, medications, prescriptionImages, isAnalyzing,
                   analyses, isEditing, editingMedication, usedRow,
                   vitalVars, trackerVars, sosVars>>

\* leaving the tab drops the outstanding analyses
LeaveMedicationsTab_Cancels ==
    /\ PageEnabled
    /\ medicationsTabOpen
    /\ medicationsTabOpen' = FALSE
    /\ prescriptionImages' = << >>
    /\ isAnalyzing' = FALSE
    /\ editingMedication' = NoMedication
    /\ analyses' = {}
    /\ toasted' = << >>
    /\ event' = Event("tab-leave", Undefined, NoCall, NoResult)
    /\ UNCHANGED <<pageVars, vitalSigns, now, medications, isEditing, usedRow,
                   vitalVars, trackerVars, sosVars>>

\* the trigger of another tab: the analyzer is unmounted and its state is
\* lost, while the analyses it started stay outstanding
LeaveMedicationsTab ==
    /\ PageEnabled
    /\ medicationsTabOpen
    /\ medicationsTabOpen' = FALSE
    /\ prescriptionImages' = << >>
    /\ isAnalyzing' = FALSE
    /\ editingMedication' = NoMedication
    /\ analyses' = {[a EXCEPT !.mounted = FALSE] : a \in analyses}
    /\ toasted' = << >>
    /\ event' = Event("tab-leave", Undefined, NoCall, NoResult)
    /\ UNCHANGED <<pageVars, vitalSigns, now, medications, isEditing, usedRow,
                   vitalVars, trackerVars, sosVars>>

\* handleImageUpload up to its await: a file over 10MB is refused, any
\* other file is added as an image and its analysis is started
HandleImageUpload(t, tooLarge) ==
    LET newImage == Image(t, FALSE)
    IN  /\ PageEnabled
        /\ medicationsTabOpen
        /\ IF tooLarge
           THEN /\ toasted' = <<"File too large">>
                /\ event' = Event("upload-refused", Undefined, NoCall, NoResult)
                /\ UNCHANGED <<prescriptionImages, isAnalyzing, analyses, now>>
           ELSE /\ prescriptionImages' = Append(prescriptionImages, newImage)
                /\ isAnalyzing' = TRUE
                /\ analyses' = analyses \cup {Analysis(newImage, medications)}
                /\ now' = t
                /\ toasted' = << >>
                /\ event' = Event("upload", Undefined, NoCall, NoResult)
        /\ UNCHANGED <<pageVars, vitalSigns, medications, medicationsTabOpen, isEditing,
                       editingMedication, usedRow, vitalVars, trackerVars, sosVars>>

\* prev.map(img => img.id === image.id ? updatedImage : img)
Analysed(images, id) ==
    [i \in 1..Len(images) |->
        IF images[i].id = id THEN [images[i] EXCEPT !.analysed = TRUE] ELSE images[i]]

\* analyzePrescriptionImage after its delay and the rest of
\* handleImageUpload: the image is marked, the medications of the render
\* that started the analysis plus the detected ones are handed to
\* onMedicationsUpdate, and the flag is cleared; the state of a component
\* that was unmounted meanwhile is not there to be set
AnalyzePrescriptionImage(a) ==
    /\ a \in analyses
    /\ analyses' = analyses \ {a}
    /\ IF a.mounted
       THEN /\ prescriptionImages' = Analysed(prescriptionImages, a.image)
            /\ isAnalyzing' = FALSE
       ELSE UNCHANGED <<prescriptionImages, isAnalyzing>>
    /\ HandleMedicationsUpdate(a.currentMedications \o mockMedications)
    /\ toasted' = <<"Analysis Complete">>
    /\ event' = Event("analysis-done", Undefined, NoCall, NoResult)
    /\ UNCHANGED <<now, edits, medicationsTabOpen, isEditing, editingMedication, usedRow,
                   vitalVars, trackerVars, sosButtonVars>>

\* removeImage
RemoveImage(imageId) ==
    LET keep(img) == img.id # imageId
    IN  /\ PageEnabled
        /\ medicationsTabOpen
        /\ prescriptionImages' = SelectSeq(prescriptionImages, keep)
        /\ toasted' = << >>
        /\ event' = Event("image-remove", Undefined, NoCall, NoResult)
        /\ UNCHANGED <<pageVars, vitalSigns, now, medications, medicationsTabOpen,
                       isAnalyzing, analyses, isEditing, editingMedication, usedRow,
                       vitalVars, trackerVars, sosVars>>

\* editMedication, called by the edit button of row i of the list
EditMedication(i) ==
    /\ PageEnabled
    /\ medicationsTabOpen
    /\ i \in 1..Len(medications)
    /\ editingMedication' = medications[i]
    /\ isEditing' = TRUE
    /\ usedRow' = i
    /\ toasted' = << >>
    /\ event' = Event("medication-edit", Undefined, NoCall, NoResult)
    /\ UNCHANGED <<pageVars, vitalSigns, now, medications, medicationsTabOpen,
                   prescriptionImages, isAnalyzing, analyses,
                   vitalVars, trackerVars, sosVars>>

\* onChange of an input of the edit dialog
EditMedicationField(field, value) ==
    /\ isEditing
    /\ editingMedication' = IF editingMedication # NoMedication
                            THEN [editingMedication EXCEPT ![field] = value]
                            ELSE NoMedication
    /\ edits' = edits + 1
    /\ toasted' = << >>
    /\ event' = Event("medication-field", Undefined, NoCall, NoResult)
    /\ UNCHANGED <<messages, isLoading, userProfile, isProfileModalOpen,
                   currentAiFollowUpKey, lastUserQuestionForFollowUp, profile,
                   focusedField, inflight, calls, vitalSigns, now, medications,
                   medicationsTabOpen, prescriptionImages, isAnalyzing, analyses,
                   isEditing, usedRow, vitalVars, trackerVars, sosVars>>

\* the Cancel button of the edit dialog
CancelMedicationEdit ==
    /\ isEditing
    /\ isEditing' = FALSE
    /\ toasted' = << >>
    /\ event' = Event("medication-cancel", Undefined, NoCall, NoResult)
    /\ UNCHANGED <<pageVars, vitalSigns, now, medications, medicationsTabOpen,
                   prescriptionImages, isAnalyzing, analyses, editingMedication, usedRow,
                   vitalVars, trackerVars, sosVars>>

\* currentMedications.map(med => med.name === edited.name ? edited : med)
ReplaceByName(ms, edited) ==
    [i \in 1..Len(ms) |-> IF ms[i].name = edited.name THEN edited ELSE ms[i]]

\* saveMedicationEdit, called by the Save button of the edit dialog
SaveMedicationEdit ==
    /\ isEditing
    /\ IF editingMedication = NoMedication
       THEN /\ toasted' = << >>
            /\ UNCHANGED <<pageVars, vitalSigns, sosAlerts, medications, isEditing,
                           editingMedication>>
       ELSE /\ HandleMedicationsUpdate(ReplaceByName(medications, editingMedication))
            /\ isEditing' = FALSE
            /\ editingMedication' = NoMedication
            /\ toasted' = <<"Medication Updated">>
            /\ UNCHANGED edits
    /\ event' = Event("medication-save", Undefined, NoCall, NoResult)
    /\ UNCHANGED <<now, medicationsTabOpen, prescriptionImages, isAnalyzing, analyses,
                   usedRow, vitalVars, trackerVars, sosButtonVars>>

\* removeMedication(medication.name), called by the remove button of row i
RemoveMedication(i) ==
    /\ PageEnabled
    /\ medicationsTabOpen
    /\ i \in 1..Len(medications)
    /\ HandleMedicationsUpdate(WithoutName(medications, medications[i].name))
    /\ usedRow' = i
    /\ toasted' = <<"Medication Removed">>
    /\ event' = Event("medication-remove", Undefined, NoCall, NoResult)
    /\ UNCHANGED <<now, edits, medicationsTabOpen, prescriptionImages, isAnalyzing,
                   analyses, isEditing, editingMedication,
                   vitalVars, trackerVars, sosButtonVars>>

\* what the user has put in so far in a session of the analyzer: the
\* uploads, which alone read the clock here, and the fields edited
UploadInputs == now + edits

\* the steps of the analyzer: a session takes MaxUploads uploads and edits
NextMedications ==
    \/ OpenMedicationsTab
    \/ LeaveMedicationsTab
    \/ /\ UploadInputs < MaxUploads
       /\ \E t \in Times, tooLarge \in BOOLEAN : HandleImageUpload(t, tooLarge)
    \/ \E a \in analyses : AnalyzePrescriptionImage(a)
    \/ \E i \in 1..Len(prescriptionImages) : RemoveImage(prescriptionImages[i].id)
    \/ \E i \in 1..Len(medications) : EditMedication(i)
    \/ /\ UploadInputs < MaxUploads
       /\ \E c \in MedicationEdits : EditMedicationField(c[1], c[2])
    \/ CancelMedicationEdit
    \/ SaveMedicationEdit
    \/ \E i \in 1..Len(medications) : RemoveMedication(i)

SpecMedications == Init /\ [][NextMedications]_vars

\* the delay of every analysis ends: its timer fires whatever else happens
AnalysisOf(t) == \E a \in analyses : a.image = <<"img", t>> /\ AnalyzePrescriptionImage(a)

SpecMedicationsLive ==
    SpecMedications /\ \A t \in 1..MaxUploads : WF_vars(AnalysisOf(t))

----------------------------------------------------------------------------
(* Feedback on the turns of the conversation *)

FeedbackValues == {"good", "bad"}

\* the feedback set on every turn
SetFeedback_All(msgs, messageId, feedback) ==
    [i \in 1..Len(msgs) |-> [msgs[i] EXCEPT !.feedback = feedback]]

\* prevMessages.map(msg => msg.id === messageId ? {...msg, feedback} : msg)
SetFeedback(msgs, messageId, feedback) ==
    [i \in 1..Len(msgs) |->
        IF msgs[i].id = messageId THEN [msgs[i] EXCEPT !.feedback = feedback]
        ELSE msgs[i]]

\* handleFeedback, called by the feedback buttons of a turn of the list
HandleFeedback(messageId, feedback) ==
    /\ PageEnabled
    /\ messages' = SetFeedback(messages, messageId, feedback)
    /\ toasted' = << >>
    /\ event' = Event("feedback", Undefined, NoCall, NoResult)
    /\ UNCHANGED <<isLoading, userProfile, vitalSigns, isProfileModalOpen,
                   currentAiFollowUpKey, lastUserQuestionForFollowUp, profile,
                   focusedField, inflight, calls, now, edits>>

\* the turns that carry a feedback
Rated(msgs) == LET rated(m) == m.feedback # "none" IN Len(SelectSeq(msgs, rated))

\* what the user has put in so far in a session with feedback
FeedbackInputs == UserTurns(messages) + edits + Rated(messages)

\* the conversation with feedback on its turns: a session takes MaxInputs
\* questions, edits and rated turns
NextFeedback ==
    \/ /\ FeedbackInputs < MaxInputs
       /\ \E q \in Questions, t \in Times : HandleSubmitQuestion(q, t) /\ UNCHANGED componentVars
    \/ \E c \in inflight, r \in Results, t \in Times : SubmitResolve(c, r, t) /\ UNCHANGED componentVars
    \/ \E c \in inflight, t \in Times : SubmitReject(c, t) /\ UNCHANGED componentVars
    \/ \E t \in Times : HandleSave(t) /\ UNCHANGED componentVars
    \/ \E t \in Times : HandleCloseProfileModal(t) /\ UNCHANGED componentVars
    \/ \E c \in inflight, r \in Results, t \in Times : RefineResolve(c, r, t) /\ UNCHANGED componentVars
    \/ \E c \in inflight, t \in Times : RefineReject(c, t) /\ UNCHANGED componentVars
    \/ OpenProfileModal /\ UNCHANGED componentVars
    \/ /\ FeedbackInputs < MaxInputs
       /\ \E c \in ChangeInputs : HandleChange(c[1], c[2]) /\ UNCHANGED componentVars
    \/ /\ FeedbackInputs < MaxInputs
       /\ \E i \in 1..Len(messages), f \in FeedbackValues :
             HandleFeedback(messages[i].id, f) /\ UNCHANGED componentVars

SpecFeedback == Init /\ [][NextFeedback]_vars

----------------------------------------------------------------------------
(* Properties of the conversation *)

\* the turns that are not pending
NonPending(msgs) == LET settled(m) == ~m.isLoading IN SelectSeq(msgs, settled)

\* the pending turns
Pending(msgs) == LET waiting(m) == m.isLoading IN SelectSeq(msgs, waiting)

\* the turns of new that come after the turns of old
Added(old, new) == SubSeq(new, Len(old) + 1, Len(new))

\* new is old with turns added at the end
Extends(old, new) == Len(new) >= Len(old) /\ SubSeq(new, 1, Len(old)) = old

HasId(msgs, id) == \E i \in 1..Len(msgs) : msgs[i].id = id

AllFromAssistant(msgs) == \A i \in 1..Len(msgs) : msgs[i].sender = "ai" /\ ~msgs[i].isLoading

\* the step is the settlement of a submit call
SubmitSettles == event'.op \in {"submit-resolve", "submit-reject"}

\* a submit appends one user turn and one pending turn
SubmitAppendsUserTurn ==
    event'.op = "submit" =>
        /\ Extends(messages, messages')
        /\ Len(Added(messages, messages')) = 2
        /\ Added(messages, messages')[1].sender = "user"
        /\ Added(messages, messages')[1].text = <<event'.question>>
        /\ ~Added(messages, messages')[1].isLoading
        /\ Added(messages, messages')[2].sender = "ai"
        /\ Added(messages, messages')[2].isLoading
        /\ Added(messages, messages')[2].id = event'.call.loadingId

\* the settlement of a call removes the pending turn of the call and nothing
\* else
PendingTurnRemoved ==
    /\ HasId(messages, event'.call.loadingId)
    /\ ~HasId(messages', event'.call.loadingId)
    /\ Len(Pending(messages')) = Len(Pending(messages)) - 1
    /\ Extends(NonPending(messages), NonPending(messages'))
    /\ AllFromAssistant(Added(NonPending(messages), NonPending(messages')))

\* C1 as stated: a non-empty question gets exactly one user turn from
\* handleSubmitQuestion and, when its call settles, exactly one assistant
\* turn (the answer or the error turn) in place of its pending turn
C1_OneTerminalTurn ==
    [][ /\ SubmitAppendsUserTurn
        /\ SubmitSettles =>
              /\ PendingTurnRemoved
              /\ Len(Added(NonPending(messages), NonPending(messages'))) = 1 ]_vars

\* C1 as amended: a non-empty question gets exactly one user turn from
\* handleSubmitQuestion; when its call settles its pending turn is removed and
\* the conversation gains one assistant turn for a plain answer or a failure,
\* and two assistant turns (the informational turn, then the follow-up prompt)
\* for a response that asks a follow-up
C1_TurnsOfASubmit ==
    [][ /\ SubmitAppendsUserTurn
        /\ SubmitSettles =>
              /\ PendingTurnRemoved
              /\ Len(Added(NonPending(messages), NonPending(messages'))) =
                    IF event'.op = "submit-resolve" /\ event'.result.followUpQuestion = "F"
                    THEN 2 ELSE 1 ]_vars

C1_Witness ==
    /\ event.op = "submit-resolve"
    /\ event.result.followUpQuestion = "F"
    /\ Len(Pending(messages)) = 0
    /\ messages[Len(messages)].isFollowUpPrompt

\* the request issued last
LastCall(cs) == cs[Len(cs)]

\* the step issues exactly one collaborator call, of the given kind
IssuesOneCall(kind) ==
    /\ Len(calls') = Len(calls) + 1
    /\ SubSeq(calls', 1, Len(calls)) = calls
    /\ \E c \in inflight' \ inflight :
          /\ inflight' = inflight \cup {c}
          /\ c.kind = kind
          /\ c.input = LastCall(calls')

\* the step issues no collaborator call
IssuesNoCall == calls' = calls /\ inflight' \subseteq inflight

\* PendingFollowUp is unset
NoPendingFollowUp ==
    lastUserQuestionForFollowUp = Undefined /\ currentAiFollowUpKey = Undefined

\* the step is the settlement of a refine call
RefineSettles == event'.op \in {"refine-resolve", "refine-reject"}

\* C2: a response to a submit that includes followUpQuestion sets
\* PendingFollowUp to the suggested key and the original question and opens
\* the profile editor focused on that key; the next save issues exactly one
\* refine call, with the saved profile and the original question; and
\* PendingFollowUp is unset when the refine cycle is over
C2_FollowUpThenRefine ==
    [][ /\ (event'.op = "submit-resolve" /\ event'.result.followUpQuestion = "F") =>
              /\ currentAiFollowUpKey' = event'.result.suggestedKey
              /\ lastUserQuestionForFollowUp' = event'.call.question
              /\ lastUserQuestionForFollowUp' \in Questions
              /\ isProfileModalOpen'
              /\ focusedField' = IF event'.result.suggestedKey = Undefined
                                 THEN "null" ELSE event'.result.suggestedKey
        /\ (event'.op = "save" /\ lastUserQuestionForFollowUp \in Questions) =>
              /\ IssuesOneCall("refine")
              /\ LastCall(calls').question = lastUserQuestionForFollowUp
              /\ userProfile' = profile
              /\ \A k \in InputKeys : LastCall(calls').fields[k] = ByValue(profile)[k]
        /\ RefineSettles =>
              /\ IssuesNoCall
              /\ lastUserQuestionForFollowUp' = Undefined
              /\ currentAiFollowUpKey' = Undefined ]_vars

C2_Witness ==
    /\ event.op = "refine-resolve"
    /\ Len(calls) = 2
    /\ calls[2].question = calls[1].question
    /\ calls[2].fields # calls[1].fields
    /\ NoPendingFollowUp

Age34 == <<[key |-> "age", value |-> Num(34)]>>

\* C3: from an empty profile, a follow-up on age answered by saving age = 34
\* alone issues exactly one refine call, whose request has age = 34 and no
\* other profile field, and PendingFollowUp is undefined afterwards
C3_EndToEndAge ==
    [][ /\ ( /\ event'.op = "save"
             /\ userProfile = EmptyProfile
             /\ lastUserQuestionForFollowUp \in Questions
             /\ currentAiFollowUpKey = "age"
             /\ profile = Age34 ) =>
                /\ IssuesOneCall("refine")
                /\ LastCall(calls').question = lastUserQuestionForFollowUp
                /\ LastCall(calls').fields["age"] = Num(34)
                /\ \A k \in InputKeys \ {"age"} : LastCall(calls').fields[k] = Undef
                /\ lastUserQuestionForFollowUp' = Undefined
                /\ currentAiFollowUpKey' = Undefined
        /\ (RefineSettles /\ event'.call.input.fields["age"] = Num(34)) =>
                /\ IssuesNoCall
                /\ lastUserQuestionForFollowUp' = Undefined
                /\ currentAiFollowUpKey' = Undefined ]_vars

C3_Witness ==
    /\ event.op = "refine-resolve"
    /\ userProfile = Age34
    /\ Len(calls) = 2
    /\ \A k \in InputKeys : calls[1].fields[k] = Undef
    /\ calls[2].fields["age"] = Num(34)
    /\ NoPendingFollowUp

\* the value is absent, 0, or a string of nothing but blanks
EmptyValue(v) ==
    \/ v.type = "undefined"
    \/ v.type = "number" /\ v.num = 0
    \/ v.type = "string" /\ v.str \in {"", " "}

\* the turn is the 'no problem' turn of a declined follow-up
IsNoProblemTurn(m) ==
    m.text = CancelFollowUpText /\ m.sender = "ai" /\ ~m.isLoading

\* the step is a cancel of the editor while a follow-up is pending
CancelWhilePending == event'.op = "cancel" /\ lastUserQuestionForFollowUp \in Questions

\* the step appends the 'no problem' turn and nothing else
AppendsOneNoProblemTurn ==
    /\ Extends(messages, messages')
    /\ Len(Added(messages, messages')) = 1
    /\ IsNoProblemTurn(Added(messages, messages')[1])

\* C4 as stated: a cancel of the editor while a follow-up is pending and the
\* suggested field is still empty makes no collaborator call, appends exactly
\* one 'no problem' turn and clears PendingFollowUp, also for a follow-up
\* that came without suggestedKey
C4_CancelAnyFollowUp ==
    [][ ( /\ CancelWhilePending
          /\ \/ currentAiFollowUpKey = Undefined
             \/ EmptyValue(ByValue(userProfile)[currentAiFollowUpKey]) ) =>
            /\ IssuesNoCall
            /\ AppendsOneNoProblemTurn
            /\ lastUserQuestionForFollowUp' = Undefined
            /\ currentAiFollowUpKey' = Undefined ]_vars

\* C4 as amended: a cancel of the editor while a follow-up is pending makes
\* no collaborator call and clears PendingFollowUp; it appends exactly one
\* 'no problem' turn when the follow-up came with a suggestedKey and that
\* field of the profile is still empty, and no turn when the follow-up came
\* without suggestedKey
C4_CancelKeyedFollowUp ==
    [][ CancelWhilePending =>
            /\ IssuesNoCall
            /\ lastUserQuestionForFollowUp' = Undefined
            /\ currentAiFollowUpKey' = Undefined
            /\ currentAiFollowUpKey = Undefined => messages' = messages
            /\ ( /\ currentAiFollowUpKey \in ProfileKeys
                 /\ EmptyValue(ByValue(userProfile)[currentAiFollowUpKey]) ) =>
                    AppendsOneNoProblemTurn ]_vars

C4_Witness ==
    /\ event.op = "cancel"
    /\ event.question \in Questions
    /\ IsNoProblemTurn(messages[Len(messages)])
    /\ NoPendingFollowUp
    /\ inflight = {}

\* C5: a save of the editor while a follow-up is pending appends the
\* acknowledgment and the pending turn of the refine, and never a 'no
\* problem' turn
C5_SaveAppendsNoNoProblemTurn ==
    [][ (event'.op = "save" /\ lastUserQuestionForFollowUp \in Questions) =>
            /\ Extends(messages, messages')
            /\ Len(Added(messages, messages')) = 2
            /\ Added(messages, messages')[1].text = ProfileUpdatedText
            /\ Added(messages, messages')[2].isLoading
            /\ \A i \in 1..Len(Added(messages, messages')) :
                  ~IsNoProblemTurn(Added(messages, messages')[i]) ]_vars

\* the turn is the generic acknowledgment of a profile update
IsAcknowledgement(m) ==
    m.text = AcknowledgementText /\ m.sender = "ai" /\ ~m.isLoading

\* C6: a save of the editor while no follow-up is pending makes no
\* collaborator call and appends the generic acknowledgment if and only if
\* the saved profile differs by value from the profile held before; a save
\* of an unchanged profile appends nothing
C6_AckIffChanged ==
    [][ (event'.op = "save" /\ lastUserQuestionForFollowUp = Undefined) =>
            /\ IssuesNoCall
            /\ userProfile' = profile
            /\ IF ByValue(profile) # ByValue(userProfile)
               THEN /\ Extends(messages, messages')
                    /\ Len(Added(messages, messages')) = 1
                    /\ IsAcknowledgement(Added(messages, messages')[1])
               ELSE messages' = messages ]_vars

C6_Witness ==
    /\ event.op = "save"
    /\ event.question = Undefined
    /\ userProfile # EmptyProfile
    /\ IsAcknowledgement(messages[Len(messages)])
    /\ calls = << >>

\* the step is the failure of a collaborator call
CallFails == event'.op \in {"submit-reject", "refine-reject"}

\* C7: when the collaborator call of a submit or of a refine fails, the
\* pending turn of the call is removed, exactly one assistant error turn is
\* appended, one error notification is emitted, and no collaborator call is
\* issued before the user submits or saves again
C7_FailureHandling ==
    [][ /\ CallFails =>
              /\ PendingTurnRemoved
              /\ Len(Added(NonPending(messages), NonPending(messages'))) = 1
              /\ messages'[Len(messages')].text \in {ErrorText, RefineErrorText}
              /\ Len(toasted') = 1
              /\ toasted'[1] \in {"Error", "Refinement Error"}
              /\ IssuesNoCall
              /\ event'.call \notin inflight'
        /\ calls' # calls => event'.op \in {"submit", "save"} ]_vars

C7_Witness ==
    /\ event.op = "refine-reject"
    /\ messages[Len(messages)].text = RefineErrorText
    /\ Len(Pending(messages)) = 0
    /\ toasted = <<"Refinement Error">>

\* the conversation holds an error turn of a failed submit
HasFailedSubmit == \E i \in 1..Len(messages) : messages[i].text = ErrorText

\* C8: a failed collaborator call is not fatal: the failure of a submit
\* leaves the loading flag false and the profile store, the vital-signs
\* store and PendingFollowUp as they were, and a submit, after a failure as
\* before one, is enabled by the loading flag being false and sends the
\* question with the profile and the latest reading of that moment
C8_FailureIsNotFatal ==
    [][ /\ CallFails =>
              /\ isLoading' = FALSE
              /\ userProfile' = userProfile
              /\ vitalSigns' = vitalSigns
        /\ event'.op = "submit-reject" =>
              /\ lastUserQuestionForFollowUp' = lastUserQuestionForFollowUp
              /\ currentAiFollowUpKey' = currentAiFollowUpKey
        /\ event'.op = "submit" =>
              /\ ~isLoading
              /\ isLoading'
              /\ IssuesOneCall("submit")
              /\ LastCall(calls').question = event'.question
              /\ \A k \in InputKeys : LastCall(calls').fields[k] = ByValue(userProfile)[k]
              /\ LastCall(calls').vitalSigns =
                    IF vitalSigns = << >> THEN << >> ELSE <<vitalSigns[1]>>
              /\ SubmitAppendsUserTurn ]_vars

C8_Witness ==
    /\ event.op = "submit"
    /\ HasFailedSubmit
    /\ isLoading
    /\ Len(calls) = 2

----------------------------------------------------------------------------
(* Properties of the vital-sign classifier *)

\* C9: a blood-pressure reading, passed to the classifier as renderVitalCard
\* passes it, has status 'warning' if and only if its systolic component is
\* below 90 or above 140, whatever its diastolic component
C9_BloodPressureBySystolic ==
    (vcType = "bloodPressure" /\ vcStatus # "none") =>
        (vcStatus = "warning" <=> (vcValue.systolic < 900 \/ vcValue.systolic > 1400))

\* C10: a value of a scalar kind has status 'warning' if and only if it is
\* below the min or above the max of the kind's entry in normalRanges, and
\* 'normal' otherwise
C10_ScalarByRange ==
    (vcType \in ScalarKinds /\ vcStatus # "none") =>
        /\ vcStatus \in {"warning", "normal"}
        /\ vcStatus = "warning" <=>
              \/ vcValue.num < normalRanges[vcType].min
              \/ vcValue.num > normalRanges[vcType].max

C10_Witness ==
    /\ vcType = "heartRate"
    /\ vcValue = VNum(450)
    /\ vcStatus = "warning"

----------------------------------------------------------------------------
(* Properties of the calls in flight and of the refine cycle *)

\* C11: at most one collaborator call is in flight in every reachable state:
\* no submit, open, save or cancel starts a call while another call is in
\* flight
C11_AtMostOneCallInFlight ==
    [][ /\ Cardinality(inflight') <= 1
        /\ calls' # calls => inflight = {}
        /\ event'.op = "submit" => ~isLoading ]_vars

C11_Witness ==
    /\ event.op = "save"
    /\ event.call.kind = "refine"
    /\ Len(calls) = 2
    /\ Cardinality(inflight) = 1

\* the last turn of the conversation
LastTurn(msgs) == msgs[Len(msgs)]

\* the step is a response to a refine that asks a further follow-up
RefineAsksFollowUp == event'.op = "refine-resolve" /\ event'.result.followUpQuestion = "F"

\* C12: when the response to a refine asks a further follow-up, the follow-up
\* question is appended as a follow-up-prompt turn and the 'further
\* information requested' notification is emitted, but the editor is not
\* opened and PendingFollowUp is not set: PendingFollowUp is set by the
\* response to a submit alone, and a save while it is unset starts no call
C12_RefineFollowUpNotRearmed ==
    [][ /\ RefineAsksFollowUp =>
              /\ PendingTurnRemoved
              /\ LastTurn(messages').isFollowUpPrompt
              /\ LastTurn(messages').text = <<event'.result.followUpQuestion>>
              /\ LastTurn(messages').sender = "ai"
              /\ toasted' = <<"Further Information Requested">>
              /\ isProfileModalOpen' = isProfileModalOpen
              /\ lastUserQuestionForFollowUp' = Undefined
              /\ currentAiFollowUpKey' = Undefined
        /\ (lastUserQuestionForFollowUp = Undefined /\ lastUserQuestionForFollowUp' # Undefined) =>
              event'.op = "submit-resolve"
        /\ (event'.op = "save" /\ lastUserQuestionForFollowUp = Undefined) => IssuesNoCall ]_vars

C12_Witness ==
    /\ event.op = "refine-resolve"
    /\ event.result.followUpQuestion = "F"
    /\ LastTurn(messages).isFollowUpPrompt
    /\ toasted = <<"Further Information Requested">>
    /\ ~isProfileModalOpen
    /\ NoPendingFollowUp

\* C13: after every refine cycle, whether the call answered, asked a further
\* follow-up or failed, the key and the question of PendingFollowUp are unset
\* and the loading flag is false
C13_RefineCycleEnds ==
    [][ RefineSettles =>
            /\ lastUserQuestionForFollowUp' = Undefined
            /\ currentAiFollowUpKey' = Undefined
            /\ isLoading' = FALSE ]_vars

C13_Witness ==
    /\ event.op = "refine-reject"
    /\ isProfileModalOpen
    /\ ~isLoading
    /\ NoPendingFollowUp

\* the calls in flight show as the loading flag and as pending turns
InFlightShowsAsPending ==
    /\ inflight # {} <=> (isLoading /\ Len(Pending(messages)) = 1)
    /\ Len(Pending(messages)) = Cardinality(inflight)
    /\ \A c \in inflight : HasId(Pending(messages), c.loadingId)

\* C18: a call is in flight if and only if the loading flag is true and the
\* conversation holds exactly one pending turn; while the call has not
\* settled the pending turn stays and no question can be submitted
C18_InFlightIffPending ==
    [][ /\ InFlightShowsAsPending
        /\ InFlightShowsAsPending'
        /\ (inflight # {} /\ ~SubmitSettles /\ ~RefineSettles) =>
              /\ inflight' = inflight
              /\ Pending(messages') = Pending(messages)
              /\ isLoading'
              /\ event'.op # "submit" ]_vars

C18_Witness ==
    /\ event.op = "cancel"
    /\ inflight # {}
    /\ isLoading
    /\ Len(Pending(messages)) = 1

\* C19: a response to a submit that asks a follow-up puts exactly two
\* assistant turns in place of the pending turn, in this order: the
\* informational turn, whose text is the answer when the answer is non-empty
\* and differs from the follow-up question and the generic 'need more
\* information' text otherwise, then the follow-up-prompt turn carrying the
\* follow-up question
C19_TwoTurnsOfAFollowUp ==
    [][ (event'.op = "submit-resolve" /\ event'.result.followUpQuestion = "F") =>
            LET added == Added(NonPending(messages), NonPending(messages'))
            IN  /\ PendingTurnRemoved
                /\ Len(added) = 2
                /\ added[1].sender = "ai"
                /\ ~added[1].isFollowUpPrompt
                /\ added[1].text =
                      IF event'.result.answer \in {"", "F"}
                      THEN NeedMoreInfoText ELSE <<event'.result.answer>>
                /\ added[2].sender = "ai"
                /\ added[2].isFollowUpPrompt
                /\ added[2].text = <<"F">> ]_vars

C19_Witness ==
    /\ event.op = "submit-resolve"
    /\ event.result.answer = "F"
    /\ Len(messages) = 4
    /\ messages[3].text = NeedMoreInfoText
    /\ messages[4].isFollowUpPrompt

----------------------------------------------------------------------------
(* Properties of the vital-signs store *)

\* the reading is one of the store and no reading of the store is later
IsLatestOf(r, vs) ==
    /\ \E i \in 1..Len(vs) : vs[i] = r
    /\ \A i \in 1..Len(vs) : vs[i].timestamp <= r.timestamp

\* the request carries the question, the fields of the profile p and the
\* latest reading of the store
RequestCarries(req, question, p, vs) ==
    /\ req.question = question
    /\ \A k \in InputKeys : req.fields[k] = ByValue(p)[k]
    /\ IF vs = << >>
       THEN req.vitalSigns = << >>
       ELSE Len(req.vitalSigns) = 1 /\ IsLatestOf(req.vitalSigns[1], vs)

\* C14: the request of a submit carries the question, each profile field as
\* the profile store holds it at the submit, and as vitalSigns the reading
\* with the greatest timestamp of all the readings of the store, or none
\* when the store is empty; the request of a refine is built the same way
\* from the saved profile and the question the follow-up was asked for
C14_RequestContents ==
    [][ /\ event'.op = "submit" =>
              /\ IssuesOneCall("submit")
              /\ RequestCarries(LastCall(calls'), event'.question, userProfile, vitalSigns)
        /\ (event'.op = "save" /\ lastUserQuestionForFollowUp \in Questions) =>
              /\ IssuesOneCall("refine")
              /\ userProfile' = profile
              /\ RequestCarries(LastCall(calls'), LastCall(calls).question, profile, vitalSigns)
        /\ calls' # calls => event'.op \in {"submit", "save"} ]_vars

C14_Witness ==
    /\ event.op = "submit"
    /\ Len(vitalSigns) = 2
    /\ vitalSigns[1].timestamp > vitalSigns[2].timestamp
    /\ LastCall(calls).vitalSigns = <<vitalSigns[1]>>

\* the store is newest-first: the timestamps do not increase along it
NewestFirst(vs) == \A i \in 1..Len(vs) : \A j \in i..Len(vs) : vs[i].timestamp >= vs[j].timestamp

\* C15: after any sequence of manual entries the vital-signs store is
\* newest-first, so that its element 0 is the latest reading; an update adds
\* exactly one reading, and the readings already stored are neither changed
\* nor removed
C15_StoreNewestFirst ==
    [][ /\ NewestFirst(vitalSigns')
        /\ event'.op = "vitals" =>
              /\ Len(vitalSigns') = Len(vitalSigns) + 1
              /\ IsLatestOf(vitalSigns'[1], vitalSigns')
        /\ vitalSigns' # vitalSigns =>
              /\ event'.op = "vitals"
              /\ SubSeq(vitalSigns', 2, Len(vitalSigns')) = vitalSigns ]_vars

C15_Witness ==
    /\ event.op = "vitals"
    /\ Len(vitalSigns) = 3
    /\ vitalSigns[1].bloodPressure = VNum(720)
    /\ vitalSigns[2].heartRate = VNum(720)
    /\ vitalSigns[1].timestamp > vitalSigns[3].timestamp

----------------------------------------------------------------------------
(* Properties of the emergency contact and of the SOS alert *)

ContactFields == {"name", "phone", "relationship"}

\* the profile holds an emergency contact
HasContact(p) == Get(p, "emergencyContact").type = "object"

\* C16: an SOS alert submitted with non-empty symptoms ends with
\* emergencyContactNotified = true when the profile holds an emergency
\* contact, and with emergencyContactNotified = false when it holds none
C16_ContactNotified ==
    [][ event'.op = "sos" =>
            /\ sosAlerts'[1].symptoms # ""
            /\ sosAlerts'[1].emergencyContactNotified = HasContact(userProfile)
            /\ currentAlert'.emergencyContactNotified = HasContact(userProfile) ]_vars

\* C17: in every profile stored by a save the emergency contact is
\* all-or-nothing: it is absent, or it has name, phone and relationship
C17_ContactAllOrNothing ==
    HasContact(userProfile) =>
        \A f \in ContactFields : HasKey(ContactOf(userProfile), f)

----------------------------------------------------------------------------
(* Properties of the profile store *)

\* the handlers other than the save of the editor
NotASave ==
    event'.op \in {"submit", "submit-resolve", "submit-reject", "refine-resolve",
                   "refine-reject", "cancel", "open", "change", "vitals",
                   "medications", "sos"}

\* C20: the profile store changes only when the profile editor is saved,
\* and then it becomes exactly the saved profile; a submit, a response or a
\* failure of the collaborator, a cancel of the editor, a vitals update, a
\* medications update and an SOS alert leave it as it was
C20_ProfileChangesOnlyOnSave ==
    [][ /\ event'.op = "save" => userProfile' = profile
        /\ NotASave => userProfile' = userProfile
        /\ userProfile' # userProfile => event'.op = "save" ]_vars

C20_Witness ==
    /\ event.op = "cancel"
    /\ userProfile # EmptyProfile
    /\ profile # userProfile

----------------------------------------------------------------------------
(* Properties of the manual entry dialog *)

\* C24: an entry with no value for the selected kind is refused with a
\* notification, adds no reading and leaves the dialog open with what was
\* typed; an accepted entry hands onVitalSignsUpdate one reading, which
\* carries the instant of the entry and the value of the selected kind and
\* no other kind, whatever was typed for the other kinds before
C24_ManualEntry ==
    [][ /\ event'.op = "entry-refused" =>
            /\ ~VitalTruthy(manualVitals[selectedVitalType])
            /\ toasted' = <<"Value Required">>
            /\ vitalSigns' = vitalSigns
            /\ isManualEntryOpen'
            /\ manualVitals' = manualVitals
        /\ event'.op = "vitals" =>
            /\ VitalTruthy(manualVitals[selectedVitalType])
            /\ Len(vitalSigns') = Len(vitalSigns) + 1
            /\ Tail(vitalSigns') = vitalSigns
            /\ Head(vitalSigns').timestamp = now'
            /\ Head(vitalSigns')[selectedVitalType] = manualVitals[selectedVitalType]
            /\ \A k \in TrackerKinds \ {selectedVitalType} :
                   Head(vitalSigns')[k] = VUndef ]_vars

\* an entry of the second kind has been accepted and carries that kind alone
C24_Witness ==
    /\ event.op = "vitals"
    /\ selectedVitalType = "bloodPressure"
    /\ Head(vitalSigns).bloodPressure = VNum(720)
    /\ Head(vitalSigns).heartRate = VUndef

----------------------------------------------------------------------------
(* Properties of the SOS button *)

\* C23: handleSubmitSOS on empty or blank symptoms is refused: it shows
\* the "Symptoms Required" notification and nothing else happens; no alert
\* reaches onSOSAlert, the alerts of the page and the alert of the button
\* are as before, the dialog stays open and keeps symptoms and severity;
\* an alert is sent only for symptoms that are not blank
C23_BlankSymptomsRefused ==
    [][ /\ event'.op = "sos-refused" =>
            /\ Trim(symptoms) = ""
            /\ toasted' = <<"Symptoms Required">>
            /\ sosAlerts' = sosAlerts
            /\ currentAlert' = currentAlert
            /\ isSOSModalOpen /\ isSOSModalOpen'
            /\ severity' = severity
            /\ symptoms' = symptoms
        /\ event'.op = "sos" => Trim(symptoms) # "" ]_vars

\* a blank submit refused with a severity chosen and an earlier alert kept
C23_Witness ==
    /\ event.op = "sos-refused"
    /\ symptoms = " "
    /\ severity = "critical"
    /\ Len(sosAlerts) = 1
    /\ currentAlert = Head(sosAlerts)

\* C26: after the alert of the button is resolved or escalated, the alert
\* with that id in the alerts of the page is no longer active
C26_PageAlertFollowsStatus ==
    [][ event'.op = "sos-status" =>
            \A i \in 1..Len(sosAlerts') :
                sosAlerts'[i].id = currentAlert'.id => sosAlerts'[i].status # "active" ]_vars

\* C27: the alert of the button is created active by a submit that was not
\* refused, which is the only step that brings a new alert; its status
\* changes only by resolve or escalate, only from active, and to resolved
\* or escalated; a resolved or escalated alert keeps its status
C27_AlertLifecycle ==
    [][ /\ event'.op = "sos" =>
            /\ currentAlert'.status = "active"
            /\ currentAlert'.id # currentAlert.id
        /\ event'.op = "sos-status" =>
            /\ currentAlert.status = "active"
            /\ currentAlert'.status \in {"resolved", "escalated"}
            /\ currentAlert' = [currentAlert EXCEPT !.status = currentAlert'.status]
        /\ currentAlert' # currentAlert => event'.op \in {"sos", "sos-status"}
        /\ currentAlert'.id # currentAlert.id => event'.op = "sos"
        /\ (currentAlert'.id = currentAlert.id /\ currentAlert.status # "active") =>
            currentAlert'.status = currentAlert.status ]_vars

\* a second alert escalated after the first one was resolved or escalated
C27_Witness ==
    /\ event.op = "sos-status"
    /\ currentAlert.status = "escalated"
    /\ Len(sosAlerts) = 2

----------------------------------------------------------------------------
(* Properties of the profile editor *)

\* C25: a save that follows the reopening of the editor with no edit in
\* between stores the profile that was stored before, whatever was edited
\* and cancelled earlier, and with no follow-up pending it appends no turn
C25_CancelDiscardsEdits ==
    [][ (event.op = "open" /\ event'.op = "save") =>
            /\ userProfile' = userProfile
            /\ (lastUserQuestionForFollowUp = Undefined => messages' = messages) ]_vars

\* C28: whenever the question of a follow-up is recorded as pending, the
\* profile editor is open
C28_PendingFollowUpMeansEditorOpen ==
    lastUserQuestionForFollowUp # Undefined => isProfileModalOpen

\* the user has edited a field of the editor that a follow-up opened
C28_Witness ==
    /\ lastUserQuestionForFollowUp # Undefined
    /\ isProfileModalOpen
    /\ event.op = "change"

----------------------------------------------------------------------------
(* Properties of the list of turns *)

\* the turns with their feedback left out
WithoutFeedback(msgs) == [i \in 1..Len(msgs) |-> [msgs[i] EXCEPT !.feedback = "none"]]

\* C21: the turns that are not pending are never removed or reordered:
\* every step keeps them, in their order, in front of the non-pending turns
\* it adds, and a step other than a feedback keeps their feedback as well;
\* a feedback step adds and removes nothing and changes nothing but the
\* feedback of the turns with the id it was given
C21_AppendOnly ==
    [][ /\ Extends(WithoutFeedback(NonPending(messages)),
                   WithoutFeedback(NonPending(messages')))
        /\ event'.op # "feedback" => Extends(NonPending(messages), NonPending(messages'))
        /\ event'.op = "feedback" =>
              \E k \in 1..Len(messages), f \in FeedbackValues :
                  /\ Len(messages') = Len(messages)
                  /\ \A i \in 1..Len(messages) :
                        messages'[i] =
                            IF messages[i].id = messages[k].id
                            THEN [messages[i] EXCEPT !.feedback = f]
                            ELSE messages[i] ]_vars

\* a turn in the middle of the conversation rated, the others as they were
C21_Witness ==
    /\ event.op = "feedback"
    /\ Len(messages) >= 3
    /\ messages[2].feedback = "bad"
    /\ messages[1].feedback = "none"
    /\ messages[3].feedback = "none"

----------------------------------------------------------------------------
(* Properties of the prescription analyzer *)

\* the last n entries of a list
Last(ms, n) == SubSeq(ms, Len(ms) - n + 1, Len(ms))

\* the analysis of the image uploaded at instant t is outstanding
Outstanding(t) == \E a \in analyses : a.image = <<"img", t>>

\* C22: an analysis cannot be cancelled: an accepted upload starts one, it
\* stops being outstanding only by completing, whatever happened to its
\* image and to the analyzer meanwhile, its completion hands
\* onMedicationsUpdate the medications of the render that started it with
\* the detected medications added at the end, and every analysis completes
C22_AnalysisCompletes ==
    /\ [][ /\ event'.op = "upload" =>
                 \E a \in analyses' \ analyses : a.image = <<"img", now'>>
           /\ \A a \in analyses :
                 (\A b \in analyses' : b.image # a.image) =>
                     /\ event'.op = "analysis-done"
                     /\ medications' = a.currentMedications \o mockMedications
           /\ event'.op = "analysis-done" =>
                 /\ Len(medications') >= Len(mockMedications)
                 /\ Last(medications', Len(mockMedications)) = mockMedications ]_vars
    /\ \A t \in 1..MaxUploads : Outstanding(t) ~> ~Outstanding(t)

\* an analysis has completed after the analyzer was left: its medications
\* are in the list of the page and its image is gone
C22_Witness ==
    /\ event.op = "analysis-done"
    /\ ~medicationsTabOpen
    /\ prescriptionImages = << >>
    /\ medications = mockMedications
    /\ analyses = {}

\* C29: a save of the edit dialog puts the edited medication, name
\* included, in the row whose edit button opened the dialog, and leaves
\* the other rows and the length of the list as they were
C29_SaveReplacesEditedRow ==
    [][ (event'.op = "medication-save" /\ usedRow \in 1..Len(medications)) =>
            /\ Len(medications') = Len(medications)
            /\ medications'[usedRow] = editingMedication
            /\ \A i \in 1..Len(medications) \ {usedRow} :
                   medications'[i] = medications[i] ]_vars

\* C30: a remove takes out the row whose remove button was used and no
\* other: the list is one shorter and the other rows, those of the same
\* name included, keep their order
C30_RemoveTakesOneRow ==
    [][ event'.op = "medication-remove" =>
            /\ Len(medications') = Len(medications) - 1
            /\ medications' = SubSeq(medications, 1, usedRow' - 1)
                               \o SubSeq(medications, usedRow' + 1, Len(medications)) ]_vars

====
